---- MODULE Spec2Model ----
(***************************************************************************)
(* TermCanvas (gooderfreed/TermCanvas): a grid of styled cells rendered to  *)
(* a terminal as ANSI escape sequences.                                     *)
(*                                                                          *)
(* The model follows src/termcanvas.h (the canvas, capability detection,    *)
(* the encoders, tc_create, tc_destroy, tc_show_too_small, tc_show), the    *)
(* drawing primitives of src/screen.h and the caller in src/main.c.         *)
(*                                                                          *)
(* Text is modelled character by character: a string is a tuple of          *)
(* one-character strings, "ESC" standing for \033 and "NL" for \n.  What a  *)
(* call writes to stdout is a sequence of physical writes (one per          *)
(* wprintf), each a sequence of tokens [k |-> kind, t |-> text], one token  *)
(* per swprintf call or per stored glyph.                                   *)
(***************************************************************************)
EXTENDS Integers, Sequences, FiniteSets, TLC

\* ------------------------------------------------------------------ bounds
\* Largest width and height of the small frames tc_create is called with.
MaxW == 3
MaxH == 2
\* Number of drawing calls made on one frame.
MaxOps == 1
\* A many-row frame and a one-row frame whose staging buffers hold a whole
\* row of one style.
BigW == 20
BigH == 4
RowW == 60

\* ------------------------------------------------------- program constants
MAX_ANSI_LENGTH == 50
\* Default terminal size of tc_get_terminal_size.
DEFAULT_W == 80
DEFAULT_H == 24
\* Capacity of the local buffer of tc_show_too_small.
TOO_SMALL_BUF == 1024
\* TcEffect
Effect_None == 0
Effect_Bold == 1
\* INT_MAX of the 32-bit int the coordinates are passed in.
INT_MAX == 2147483647

\* ------------------------------------------------------------ C arithmetic
\* int addition as the build performs it: two's-complement wrap-around.
\* (Written so that no intermediate value leaves the 32-bit range.)
AddInt(a, b) ==
  IF a > 0 /\ b > INT_MAX - a
    THEN ((a - INT_MAX) - 1) + ((b - INT_MAX) - 1)
  ELSE IF a < 0 /\ b < (-INT_MAX - 1) - a
    THEN ((a + INT_MAX) + 1) + ((b + INT_MAX) + 1)
  ELSE a + b

\* C integer division truncates toward zero.
CDiv(a, b) == IF a >= 0 THEN a \div b ELSE -((-a) \div b)

Max(a, b) == IF a >= b THEN a ELSE b

Min(a, b) == IF a <= b THEN a ELSE b

\* for (i = lo; i < hi; ++i) r = Body(i, r): the turns in order, the range
\* split in halves so that a long loop stays shallow to evaluate; the first
\* half's result (a record) is computed before the second half starts.
RECURSIVE ForLoop(_, _, _, _)
ForLoop(Body(_, _), lo, hi, r0) ==
  IF lo >= hi THEN r0
  ELSE IF hi - lo = 1 THEN Body(lo, r0)
  ELSE LET mid == lo + ((hi - lo) \div 2)
           r == ForLoop(Body, lo, mid, r0)
       IN IF DOMAIN r = DOMAIN r THEN ForLoop(Body, mid, hi, r)
          ELSE r

\* ------------------------------------------------------------------- text
DigitChars == <<"0", "1", "2", "3", "4", "5", "6", "7", "8", "9">>

RECURSIVE NatStr(_)
NatStr(n) == IF n < 10 THEN <<DigitChars[n + 1]>>
             ELSE NatStr(n \div 10) \o <<DigitChars[(n % 10) + 1]>>

\* printf's %d / %i.
IntStr(n) == IF n < 0 THEN <<"-">> \o NatStr(-n) ELSE NatStr(n)

RECURSIVE Concat(_)
Concat(ss) == IF ss = <<>> THEN <<>> ELSE Head(ss) \o Concat(Tail(ss))

\* ------------------------------------------------------------------ Color
\* color.h is not part of the sources at hand: a Color is modelled by its
\* .color word, a 24-bit RGB value, with COLOR_NONE a word outside that range.
RGB(r, g, b) == r * 65536 + g * 256 + b
COLOR_NONE == 16777216
COLOR_BLACK == RGB(0, 0, 0)
COLOR_WHITE == RGB(255, 255, 255)
COLOR_RED == RGB(255, 0, 0)
COLOR_GREEN == RGB(0, 255, 0)
COLOR_BLUE == RGB(0, 0, 255)
is_none(c) == c = COLOR_NONE
get_red(c) == (c \div 65536) % 256
get_green(c) == (c \div 256) % 256
get_blue(c) == c % 256

\* -------------------------------------------------- capability detection
\* strstr(hay, needle) != NULL
PrefixAt(hay, needle, i) ==
  \A k \in 1..Len(needle) : hay[i + k - 1] = needle[k]

strstr(hay, needle) ==
  \E i \in 1..(Len(hay) - Len(needle) + 1) : PrefixAt(hay, needle, i)

\* An environment variable: unset (getenv returns NULL) or a string.
Unset == [set |-> FALSE, val |-> <<>>]
EnvStr(s) == [set |-> TRUE, val |-> s]

S_truecolor == <<"t","r","u","e","c","o","l","o","r">>
S_direct == <<"d","i","r","e","c","t">>
S_xterm == <<"x","t","e","r","m">>
S_xterm_direct == S_xterm \o <<"-">> \o S_direct
S_xterm_truecolor == S_xterm \o <<"-">> \o S_truecolor
S_256color == <<"2","5","6","c","o","l","o","r">>
S_dumb == <<"d","u","m","b">>
S_xterm_256color == S_xterm \o <<"-">> \o S_256color
Families256 ==
  { S_xterm, <<"r","x","v","t">>, <<"l","i","n","u","x">>,
    <<"c","a","n","v","a","s">>, <<"t","m","u","x">>,
    <<"v","t","1","0","0">>, <<"v","t","2","2","0">>, <<"a","n","s","i">>,
    <<"k","o","n","s","o","l","e">>, <<"E","t","e","r","m">>,
    <<"g","n","o","m","e">>, <<"a","l","a","c","r","i","t","t","y">>,
    <<"s","t">>, <<"f","o","o","t">>, <<"k","i","t","t","y">> }

\* A get_cached_tput_colors that asks tput on every call.
get_cached_tput_colors_Uncached(cached, tput_exists, tput_result) ==
  IF tput_exists THEN tput_result ELSE -1

\* The static cached_colors after a call of get_cached_tput_colors:
\* -2 uninitialized, -1 tput failed.  tput_exists and tput_result are what
\* tput_exists() and tput_command() would return if called now.
get_cached_tput_colors(cached, tput_exists, tput_result) ==
  IF cached = -2
    THEN (IF tput_exists THEN tput_result ELSE -1)
    ELSE cached

supports_rgb(tput_colors, colorterm, term) ==
  IF colorterm.set /\ strstr(colorterm.val, S_truecolor) THEN TRUE
  ELSE IF term.set /\ (\/ strstr(term.val, S_truecolor)
                       \/ strstr(term.val, S_direct)
                       \/ strstr(term.val, S_xterm_direct)
                       \/ strstr(term.val, S_xterm_truecolor)) THEN TRUE
  ELSE IF tput_colors > 0 THEN tput_colors >= 16777216
  ELSE FALSE

\* A supports_256 that lets a colour count of tput decide before TERM is
\* looked at.
supports_256_ProbeFirst(tput_colors, term) ==
  IF tput_colors > 0 THEN tput_colors >= 256
  ELSE term.set /\ (\/ strstr(term.val, S_256color)
                    \/ \E f \in Families256 : strstr(term.val, f))

supports_256(tput_colors, term) ==
  IF term.set /\ strstr(term.val, S_256color) THEN TRUE
  ELSE IF term.set /\ (\E f \in Families256 : strstr(term.val, f))
    THEN (IF tput_colors > 0 THEN tput_colors >= 256 ELSE TRUE)
  ELSE tput_colors >= 256

\* TcTerminalColorMode: "Base", "256", "RGB".
get_terminal_mode(tput_colors, colorterm, term) ==
  IF supports_rgb(tput_colors, colorterm, term) THEN "RGB"
  ELSE IF supports_256(tput_colors, term) THEN "256"
  ELSE "Base"

\* ------------------------------------------------- escape code generation
ESC == "ESC"
NL == "NL"
CSI == <<ESC, "[">>
SGR_RESET == <<ESC, "[", "0", "m">>
CLEAR_EOL == <<ESC, "[", "K">>

\* "\033[%dm", or "" for Effect_None.
get_effect_ansi(effect) ==
  IF effect = Effect_None THEN <<>>
  ELSE CSI \o IntStr(effect) \o <<"m">>

\* "\033[38;2;%d;%d;%d;48;2;%d;%d;%dm"
rgb_to_ansi(fg, bg) ==
  Concat(<< CSI, <<"3","8",";","2",";">>,
            IntStr(get_red(fg)), <<";">>, IntStr(get_green(fg)), <<";">>,
            IntStr(get_blue(fg)),
            <<";","4","8",";","2",";">>,
            IntStr(get_red(bg)), <<";">>, IntStr(get_green(bg)), <<";">>,
            IntStr(get_blue(bg)), <<"m">> >>)

Abs(x) == IF x < 0 THEN -x ELSE x

\* gray_step is 255.0f/24.0f = 10.625: an integer distance is within it
\* exactly when it is at most 10.
GrayHit(c, i) ==
  LET gray_val == 8 + i * 10
  IN /\ Abs(get_red(c) - gray_val) <= 10
     /\ Abs(get_green(c) - gray_val) <= 10
     /\ Abs(get_blue(c) - gray_val) <= 10

\* lroundf(ch / 255.0f * 5.0f): no channel value lands on a half.
Cube6(ch) == (10 * ch + 255) \div 510

rgb_to_256_index(c) ==
  IF \E i \in 0..23 : GrayHit(c, i)
    THEN 232 + (CHOOSE i \in 0..23 :
                  GrayHit(c, i) /\ \A j \in 0..(i - 1) : ~GrayHit(c, j))
    ELSE 16 + 36 * Cube6(get_red(c)) + 6 * Cube6(get_green(c))
            + Cube6(get_blue(c))

\* "\033[38;5;%d;48;5;%dm"
rgb_to_ansi_256(fg, bg) ==
  Concat(<< CSI, <<"3","8",";","5",";">>, IntStr(rgb_to_256_index(fg)),
            <<";","4","8",";","5",";">>, IntStr(rgb_to_256_index(bg)),
            <<"m">> >>)

basic_colors ==
  << <<0, 0, 0>>, <<128, 0, 0>>, <<0, 128, 0>>, <<128, 128, 0>>,
     <<0, 0, 128>>, <<128, 0, 128>>, <<0, 128, 128>>, <<192, 192, 192>> >>

bright_colors ==
  << <<128, 128, 128>>, <<255, 0, 0>>, <<0, 255, 0>>, <<255, 255, 0>>,
     <<0, 0, 255>>, <<255, 0, 255>>, <<0, 255, 255>>, <<255, 255, 255>> >>

\* The square of the distance the code takes the root of; the order of the
\* roots is the order of the squares.
Dist2(c, ref) ==
  (get_red(c) - ref[1]) * (get_red(c) - ref[1])
  + (get_green(c) - ref[2]) * (get_green(c) - ref[2])
  + (get_blue(c) - ref[3]) * (get_blue(c) - ref[3])

\* The loops with <= for <: the last of several nearest references wins.
RECURSIVE BaseScanLastWins(_, _, _, _)
BaseScanLastWins(c, i, index, min) ==
  IF i > 15 THEN index
  ELSE LET ref == IF i < 8 THEN basic_colors[i + 1] ELSE bright_colors[i - 7]
           d == Dist2(c, ref)
       IN IF d <= min THEN BaseScanLastWins(c, i + 1, i, d)
          ELSE BaseScanLastWins(c, i + 1, index, min)

\* The two loops of rgb_to_ansi_base for one colour: the index (0..15) left
\* in index_fg / index_bg, a strictly smaller distance replacing the minimum.
RECURSIVE BaseScan(_, _, _, _)
BaseScan(c, i, index, min) ==
  IF i > 15 THEN index
  ELSE LET ref == IF i < 8 THEN basic_colors[i + 1] ELSE bright_colors[i - 7]
           d == Dist2(c, ref)
       IN IF d < min THEN BaseScan(c, i + 1, i, d)
          ELSE BaseScan(c, i + 1, index, min)

\* min_dist starts at 1e9f, above every distance; so does 10^9 for the squares.
BaseIndex(c) == BaseScan(c, 0, 0, 1000000000)

\* "\033[%d;%dm"
rgb_to_ansi_base(fg, bg) ==
  LET index_fg == BaseIndex(fg)
      index_bg == BaseIndex(bg)
      fg_code == IF index_fg < 8 THEN 30 + index_fg ELSE 90 + (index_fg - 8)
      bg_code == IF index_bg < 8 THEN 40 + index_bg ELSE 100 + (index_bg - 8)
  IN CSI \o IntStr(fg_code) \o <<";">> \o IntStr(bg_code) \o <<"m">>

get_color_ansi(fg, bg, m) ==
  CASE m = "RGB" -> rgb_to_ansi(fg, bg)
    [] m = "256" -> rgb_to_ansi_256(fg, bg)
    [] m = "Base" -> rgb_to_ansi_base(fg, bg)
    [] OTHER -> <<>>

\* ------------------------------------------------------------------ state
VARIABLES
  proc,            \* "running", or "crashed" once the process has faulted
  screen,          \* main's TermCanvas *screen: "NULL", "live" or "freed"
  canvas,          \* the fields of struct TermCanvas
  heap,            \* "ok", or "corrupt" after a write outside an allocation
  cached_colors,   \* the static of get_cached_tput_colors
  cursor_visible,  \* terminal display state
  alt_screen,
  out,             \* the physical writes of the last call
  last,            \* the last call: its name, arguments and what it observed
  nops,            \* drawing calls made so far
  probes,          \* tput processes spawned so far
  ret              \* the last call of a conversion function and its result

vars == <<proc, screen, canvas, heap, cached_colors, cursor_visible,
          alt_screen, out, last, nops, probes, ret>>

NoRet == [op |-> "none", args |-> <<>>, val |-> <<>>]

\* struct TcPixel
TcPixel(bg, fg, sym, eff) ==
  [background |-> bg, foreground |-> fg, symbol |-> sym, effect |-> eff]

Tok(kind, text) == [k |-> kind, t |-> text]

NoCanvas ==
  [width |-> 0, height |-> 0, pixels |-> <<>>, pixels_ptr |-> "NULL",
   buffer_ptr |-> "NULL", buffer_size |-> 0, terminal_w |-> 0,
   terminal_h |-> 0, enough_space |-> FALSE, mode |-> "Base"]

NoCall ==
  [op |-> "none", args |-> <<>>, fit |-> FALSE, cleared |-> FALSE,
   hi |-> -1, pre |-> <<>>, ok |-> TRUE, cached |-> 0, probed |-> FALSE]

\* canvas->pixels[y][x]: the rows lie one after another in one blob
\* (1-based position of the cell in the sequence canvas.pixels).
CellAt(c, x, y) == c.pixels[y * c.width + x + 1]

\* ---------------------------------------------------- terminal size query
\* tc_get_terminal_size: isatty, ioctl's success and the ws_col / ws_row it
\* reports are the inputs.
tc_get_terminal_size(q) ==
  IF q.tty /\ q.ioctl_ok /\ q.col > 0 /\ q.row > 0
    THEN [w |-> q.col, h |-> q.row]
    ELSE [w |-> DEFAULT_W, h |-> DEFAULT_H]

\* A tc_get_terminal_size that also resolves the colour mode again, in an
\* environment that signals no colour support.
SizeSampledModeResolved(c, q) ==
  [c EXCEPT !.terminal_w = tc_get_terminal_size(q).w,
            !.terminal_h = tc_get_terminal_size(q).h,
            !.mode = get_terminal_mode(-1, Unset, EnvStr(S_dumb))]

\* The canvas after tc_get_terminal_size(canvas): canvas->terminal_w and
\* canvas->terminal_h are assigned.
SizeSampled(c, q) ==
  [c EXCEPT !.terminal_w = tc_get_terminal_size(q).w,
            !.terminal_h = tc_get_terminal_size(q).h]

\* ------------------------------------------------------- staging a buffer
\* A buffer being filled: the tokens staged since the last flush, the write
\* index buf_idx, the highest index written so far (-1: none), the physical
\* writes made, and tc_show's last_fg / last_bg / last_effect.
NewBuf ==
  [buf |-> <<>>, idx |-> 0, hi |-> -1, writes |-> <<>>,
   last_fg |-> COLOR_NONE, last_bg |-> COLOR_NONE, last_effect |-> Effect_None]

\* swprintf(buffer + buf_idx, n, ...) producing text, and buf_idx += its
\* result: the text and a terminating null when they fit in n wide
\* characters, else n - 1 characters, the null, and a result of -1.
Swprintf(b, n, kind, text) ==
  IF Len(text) < n
    THEN [b EXCEPT !.buf = Append(@, Tok(kind, text)),
                   !.hi = Max(@, b.idx + Len(text)),
                   !.idx = @ + Len(text)]
    ELSE [b EXCEPT !.buf = Append(@, Tok("truncated", SubSeq(text, 1, n - 1))),
                   !.hi = Max(@, b.idx + n - 1),
                   !.idx = @ - 1]

\* buffer[buf_idx++] = ch
PutChar(b, kind, ch) ==
  [b EXCEPT !.buf = Append(@, Tok(kind, <<ch>>)),
            !.hi = Max(@, b.idx),
            !.idx = @ + 1]

\* buffer[buf_idx] = L'\0'; wprintf(L"%ls", buffer); buf_idx = 0;
FlushBuf(b) ==
  [b EXCEPT !.writes = Append(@, b.buf),
            !.buf = <<>>,
            !.hi = Max(@, b.idx),
            !.idx = 0]

\* The staged text without its last character.
ChopLast(buf) ==
  IF buf = <<>> THEN <<>>
  ELSE LET n == Len(buf)
           tk == buf[n]
       IN IF Len(tk.t) <= 1 THEN SubSeq(buf, 1, n - 1)
          ELSE SubSeq(buf, 1, n - 1)
               \o <<Tok(tk.k, SubSeq(tk.t, 1, Len(tk.t) - 1))>>

\* buffer[--buf_idx] = L'\0'; wprintf(L"%ls\033[0m", buffer);
FinishBuf(b) ==
  [b EXCEPT !.writes = Append(@, ChopLast(b.buf) \o <<Tok("reset", SGR_RESET)>>),
            !.buf = <<>>,
            !.hi = Max(@, b.idx - 1),
            !.idx = @ - 1]

\* "\033[0m%s%s" with get_effect_ansi and get_color_ansi
StyleText(fg, bg, eff, m) ==
  SGR_RESET \o get_effect_ansi(eff) \o get_color_ansi(fg, bg, m)

\* "\033[0m\033[K\n"
EolText == SGR_RESET \o CLEAR_EOL \o <<NL>>

\* ------------------------------------------------------ tc_show_too_small
\* for (x = 0; x < n; ++x) buffer[buf_idx++] = L' ';
PutSpaces(b, n) == ForLoop(LAMBDA x, r : PutChar(r, "space", " "), 0, n, b)

\* The row of the diagnostic view that shows "<w>x<h>".
SizeRow(c, b) ==
  LET buffer1 == IntStr(c.terminal_w)
      buffer2 == IntStr(c.terminal_h)
      half_off_str_len == CDiv(Len(buffer1) + Len(buffer2), 2)
      base_x_offset == CDiv(c.terminal_w, 2) - 1
      b1 == PutSpaces(b, base_x_offset - half_off_str_len)
      b2 == Swprintf(b1, MAX_ANSI_LENGTH, "number",
              StyleText(IF c.terminal_w < c.width THEN COLOR_RED ELSE COLOR_GREEN,
                        COLOR_BLACK, Effect_None, c.mode) \o buffer1)
      b3 == Swprintf(b2, 36, "times",
              StyleText(COLOR_WHITE, COLOR_BLACK, Effect_None, c.mode) \o <<"x">>)
      b4 == Swprintf(b3, MAX_ANSI_LENGTH, "number",
              StyleText(IF c.terminal_h < c.height THEN COLOR_RED ELSE COLOR_GREEN,
                        COLOR_BLACK, Effect_None, c.mode) \o buffer2)
  IN Swprintf(b4, 9, "eol", EolText)

\* for (y = 0; y < canvas->terminal_h; ++y)
TooSmallRows(c, b) ==
  ForLoop(LAMBDA y, r : IF y = CDiv(c.terminal_h, 2) THEN SizeRow(c, r)
                        ELSE Swprintf(r, 9, "eol", EolText),
          0, c.terminal_h, b)

\* tc_gotoxy(0, 0), then the view staged in the local buffer[1024] and
\* written with a trailing reset.
tc_show_too_small(c) ==
  LET b0 == [NewBuf EXCEPT !.writes =
               << <<Tok("gotoxy", CSI \o IntStr(0) \o <<";">> \o IntStr(0) \o <<"H">>)>> >>]
  IN FinishBuf(TooSmallRows(c, b0))

\* ---------------------------------------------------------------- tc_show
\* for (y = 0; y < half; ++y) swprintf(..., L"\033[%d;0H\033[K", y)
ClearRows(b, half) ==
  ForLoop(LAMBDA y, r : Swprintf(r, MAX_ANSI_LENGTH, "clear",
                          CSI \o IntStr(y) \o <<";", "0", "H">> \o CLEAR_EOL),
          0, half, b)

\* The inner loop's turn with the comparison left out: every cell gets its
\* style sequence, equal to the last one or not.
ShowCellEveryTime(c, b, px) ==
  LET b1 == IF b.idx > c.buffer_size - MAX_ANSI_LENGTH THEN FlushBuf(b) ELSE b
      b2 == [Swprintf(b1, MAX_ANSI_LENGTH, "style",
                      StyleText(px.foreground, px.background, px.effect,
                                c.mode))
               EXCEPT !.last_bg = px.background,
                      !.last_fg = px.foreground,
                      !.last_effect = px.effect]
  IN PutChar(b2, "glyph", px.symbol)

\* The inner loop's turn comparing the colours only: a change of nothing
\* but the effect emits no style sequence.
ShowCellColoursOnly(c, b, px) ==
  LET b1 == IF b.idx > c.buffer_size - MAX_ANSI_LENGTH THEN FlushBuf(b) ELSE b
      b2 == IF \/ px.background # b1.last_bg
               \/ px.foreground # b1.last_fg
              THEN [Swprintf(b1, MAX_ANSI_LENGTH, "style",
                             StyleText(px.foreground, px.background,
                                       px.effect, c.mode))
                      EXCEPT !.last_bg = px.background,
                             !.last_fg = px.foreground,
                             !.last_effect = px.effect]
              ELSE b1
  IN PutChar(b2, "glyph", px.symbol)

\* One turn of the inner loop: the capacity check, the style sequence when
\* the cell's colours or effect differ from the last ones, the glyph.
ShowCell(c, b, px) ==
  LET b1 == IF b.idx > c.buffer_size - MAX_ANSI_LENGTH THEN FlushBuf(b) ELSE b
      b2 == IF \/ px.background # b1.last_bg
               \/ px.foreground # b1.last_fg
               \/ px.effect # b1.last_effect
              THEN [Swprintf(b1, MAX_ANSI_LENGTH, "style",
                             StyleText(px.foreground, px.background,
                                       px.effect, c.mode))
                      EXCEPT !.last_bg = px.background,
                             !.last_fg = px.foreground,
                             !.last_effect = px.effect]
              ELSE b1
  IN PutChar(b2, "glyph", px.symbol)

\* for (x = 0; x < canvas->width; ++x)
ShowCells(c, y, b) ==
  ForLoop(LAMBDA x, r : ShowCell(c, r, CellAt(c, x, y)), 0, c.width, b)

\* The outer loop's turn ending the row with a newline and nothing else.
ShowRowBareNewline(c, y, b) ==
  LET b1 == Swprintf(b, MAX_ANSI_LENGTH, "rowstyle",
                     StyleText(b.last_fg, b.last_bg, b.last_effect, c.mode))
  IN PutChar(ShowCells(c, y, b1), "eol", NL)

\* The outer loop's turn without the style sequence at the start of the
\* row: the cells follow the previous row's reset directly.
ShowRowNoRowStyle(c, y, b) ==
  Swprintf(ShowCells(c, y, b), 9, "eol", EolText)

\* One turn of the outer loop: the row-start style, the cells, the row end.
ShowRow(c, y, b) ==
  LET b1 == Swprintf(b, MAX_ANSI_LENGTH, "rowstyle",
                     StyleText(b.last_fg, b.last_bg, b.last_effect, c.mode))
  IN Swprintf(ShowCells(c, y, b1), 9, "eol", EolText)

\* for (y = 0; y < canvas->height && y < canvas->terminal_h; ++y)
ShowRows(c, b) ==
  ForLoop(LAMBDA y, r : ShowRow(c, y, r), 0, Min(c.height, c.terminal_h), b)

\* tc_show after its size check, for a canvas that fits: the staged render.
ShowNormal(c) ==
  LET b0 == IF ~c.enough_space
              THEN ClearRows(NewBuf, CDiv(c.terminal_h, 2) + 2)
              ELSE NewBuf
      b1 == Swprintf(b0, MAX_ANSI_LENGTH, "home",
                     CSI \o <<"0", ";", "0", "H">>)
  IN FinishBuf(ShowRows(c, b1))

TooSmall(c) == c.width > c.terminal_w \/ c.height > c.terminal_h

\* ------------------------------------------------------ drawing (screen.h)
\* The grid while a primitive runs: the cells, and whether a store went
\* outside the blob tc_create allocated.
Mem(c) == [px |-> c.pixels, oob |-> FALSE]

\* Whether canvas->pixels[y][x] designates a cell of the blob: pixels[y] is
\* a row pointer only for 0 <= y < height, and the rows are contiguous, so
\* a column outside [0, width) reaches a neighbouring row or leaves the blob.
InBlob(c, x, y) ==
  /\ c.pixels_ptr = "valid"
  /\ 0 <= y /\ y < c.height
  /\ x >= -(y * c.width)
  /\ x < c.width * c.height - y * c.width

\* A SET_PIXEL that copies both colours whatever they are.
SET_PIXEL_CopiesNone(c, m, x, y, src) ==
  IF InBlob(c, x, y)
    THEN [m EXCEPT !.px[y * c.width + x + 1] =
            [@ EXCEPT !.foreground = src.foreground,
                      !.background = src.background,
                      !.symbol = src.symbol]]
    ELSE [m EXCEPT !.oob = TRUE]

\* SET_PIXEL(&canvas->pixels[y][x], src): a colour that is not none is
\* copied, the symbol is copied, the effect is not.
SET_PIXEL(c, m, x, y, src) ==
  IF InBlob(c, x, y)
    THEN [m EXCEPT !.px[y * c.width + x + 1] =
            [@ EXCEPT !.foreground = IF is_none(src.foreground) THEN @
                                     ELSE src.foreground,
                      !.background = IF is_none(src.background) THEN @
                                     ELSE src.background,
                      !.symbol = src.symbol]]
    ELSE [m EXCEPT !.oob = TRUE]

\* canvas->pixels[y][x].symbol = sym
SetSymbol(c, m, x, y, sym) ==
  IF InBlob(c, x, y)
    THEN [m EXCEPT !.px[y * c.width + x + 1].symbol = sym]
    ELSE [m EXCEPT !.oob = TRUE]

\* canvas->pixels[y][x].effect = eff
SetEffect(c, m, x, y, eff) ==
  IF InBlob(c, x, y)
    THEN [m EXCEPT !.px[y * c.width + x + 1].effect = eff]
    ELSE [m EXCEPT !.oob = TRUE]

\* A loop whose stores move away through memory is followed for as many
\* turns as can still reach the blob; every later turn stores outside it.
LoopTurns(c, n) ==
  LET cap == Max(c.width * c.height, 0) + 1
  IN IF n > cap THEN cap ELSE n

\* tc_put_pixel
tc_put_pixel(c, x, y, symbol, foreground, background, effect) ==
  IF x < 0 \/ y < 0 THEN Mem(c)
  ELSE IF x >= c.width \/ y >= c.height THEN Mem(c)
  ELSE SET_PIXEL(c, Mem(c), x, y, TcPixel(background, foreground, symbol, effect))

\* for (j = x; j < x + width; j++) SET_PIXEL(&canvas->pixels[i][j], pixel)
FillCols(c, m, i, x, jend, pixel) ==
  ForLoop(LAMBDA j, r : SET_PIXEL(c, r, j, i, pixel), x, jend, m)

\* for (i = y; i < y + height; i++)
FillRows(c, m, y, iend, x, jend, pixel) ==
  ForLoop(LAMBDA i, r : FillCols(c, r, i, x, jend, pixel), y, iend, m)

\* tc_fill_area
tc_fill_area(c, x, y, width, height, symbol, foreground, background, effect) ==
  IF x < 0 \/ y < 0 \/ height <= 0 \/ width <= 0 THEN Mem(c)
  ELSE IF AddInt(x, width) > c.width \/ AddInt(y, height) > c.height THEN Mem(c)
  ELSE FillRows(c, Mem(c), y, AddInt(y, height), x, AddInt(x, width),
                TcPixel(background, foreground, symbol, effect))

\* for (i = 0; i < width; ++i): the top and the bottom border
BordersH(c, m, x, y, ylast, n, pixel) ==
  ForLoop(LAMBDA i, r : SET_PIXEL(c, SET_PIXEL(c, r, AddInt(x, i), y, pixel),
                                  AddInt(x, i), ylast, pixel),
          0, n, m)

\* for (i = 0; i < height; ++i): the left and the right border
BordersV(c, m, x, xlast, y, n, pixel) ==
  ForLoop(LAMBDA i, r : SET_PIXEL(c, SET_PIXEL(c, r, x, AddInt(y, i), pixel),
                                  xlast, AddInt(y, i), pixel),
          0, n, m)

\* tc_draw_borders; borders[k] of the code is borders[k + 1] here.
tc_draw_borders(c, x, y, width, height, borders, foreground, background, effect) ==
  IF y < 0 \/ x < 0 \/ height <= 0 \/ width <= 0 THEN Mem(c)
  ELSE IF AddInt(y, height) > c.height \/ AddInt(x, width) > c.width THEN Mem(c)
  ELSE
    LET xlast == AddInt(AddInt(x, width), -1)
        ylast == AddInt(AddInt(y, height), -1)
        m1 == BordersH(c, Mem(c), x, y, ylast, LoopTurns(c, width),
                       TcPixel(background, foreground, borders[1], effect))
        m2 == BordersV(c, m1, x, xlast, y, LoopTurns(c, height),
                       TcPixel(background, foreground, borders[2], effect))
        m3 == SetSymbol(c, m2, x, y, borders[3])
        m4 == SetSymbol(c, m3, xlast, y, borders[4])
        m5 == SetSymbol(c, m4, x, ylast, borders[5])
    IN SetSymbol(c, m5, xlast, ylast, borders[6])

\* for (i = 0; i < canvas->width; ++i) SET_PIXEL(&canvas->pixels[y][x + i], pixel)
LineH(c, m, x, y, pixel) ==
  ForLoop(LAMBDA i, r : SET_PIXEL(c, r, AddInt(x, i), y, pixel), 0, c.width, m)

\* tc_draw_hline
tc_draw_hline(c, x, y, borders, foreground, background, effect) ==
  IF y < 0 \/ x < 0 THEN Mem(c)
  ELSE IF y >= c.height \/ x >= c.width THEN Mem(c)
  ELSE
    LET m1 == LineH(c, Mem(c), x, y,
                    TcPixel(background, foreground, borders[1], effect))
        m2 == SetSymbol(c, m1, x, y, borders[7])
    IN SetSymbol(c, m2, c.width - 1, y, borders[8])

\* for (i = 0; i < canvas->height; ++i) SET_PIXEL(&canvas->pixels[y + i][x], pixel)
LineV(c, m, x, y, pixel) ==
  ForLoop(LAMBDA i, r : SET_PIXEL(c, r, x, AddInt(y, i), pixel), 0, c.height, m)

\* tc_draw_vline
tc_draw_vline(c, x, y, borders, foreground, background, effect) ==
  IF y < 0 \/ x < 0 THEN Mem(c)
  ELSE IF y >= c.height \/ x >= c.width THEN Mem(c)
  ELSE
    LET m1 == LineV(c, Mem(c), x, y,
                    TcPixel(background, foreground, borders[1], effect))
        m2 == SetSymbol(c, m1, x, y, borders[7])
    IN SetSymbol(c, m2, x, c.height - 1, borders[8])

\* for (i = 0; i < text_length; i++): SET_PIXEL, then .symbol and .effect
TextCells(c, m, x, y, n, text, pixel) ==
  ForLoop(LAMBDA i, r :
            SetEffect(c,
              SetSymbol(c, SET_PIXEL(c, r, x + i, y, pixel), x + i, y,
                        text[i + 1]),
              x + i, y, pixel.effect),
          0, n, m)

\* A tc_draw_text that does not shorten the text at the right edge.
tc_draw_text_Untruncated(c, x, y, text, foreground, background, effect) ==
  IF x < 0 \/ y < 0 THEN Mem(c)
  ELSE IF y >= c.height \/ x >= c.width THEN Mem(c)
  ELSE TextCells(c, Mem(c), x, y, Len(text), text,
                 TcPixel(background, foreground, " ", effect))

\* tc_draw_text; text is the string without its terminating null.
tc_draw_text(c, x, y, text, foreground, background, effect) ==
  IF x < 0 \/ y < 0 THEN Mem(c)
  ELSE IF y >= c.height \/ x >= c.width THEN Mem(c)
  ELSE
    LET text_length == IF AddInt(x, Len(text)) > c.width THEN c.width - x
                       ELSE Len(text)
    IN TextCells(c, Mem(c), x, y, text_length, text,
                 TcPixel(background, foreground, " ", effect))

\* tc_draw_wtext: the same loop over a wide string.
tc_draw_wtext(c, x, y, text, foreground, background, effect) ==
  IF x < 0 \/ y < 0 THEN Mem(c)
  ELSE IF y >= c.height \/ x >= c.width THEN Mem(c)
  ELSE
    LET text_length == IF AddInt(x, Len(text)) > c.width THEN c.width - x
                       ELSE Len(text)
    IN TextCells(c, Mem(c), x, y, text_length, text,
                 TcPixel(background, foreground, " ", effect))

\* -------------------------------------------------------------- tc_create
SIZEOF_PIXEL == 16
SIZEOF_POINTER == 8

\* The byte count handed to malloc for the blob of row pointers and cells,
\* (size_t)(width * height) * sizeof(TcPixel) + sizeof(TcPixel *) * (size_t)height,
\* as a signed number: the size_t value is this modulo 2^64, so a negative
\* number here is a request of almost 2^64 bytes, which malloc refuses.
BlobBytes(width, height) ==
  width * height * SIZEOF_PIXEL + SIZEOF_POINTER * height

\* canvas->buffer_size
BufferSize(width, height) == CDiv(15 * width * height + 8 + height, 20)

\* The pixel loop of tc_create: height rows of width copies of the pixel.
FilledPixels(width, height, pixel) ==
  IF width > 0 /\ height > 0 THEN [a \in 1..(width * height) |-> pixel]
  ELSE <<>>

\* The canvas tc_create returns when it returns: blob_ok and buffer_ok say
\* whether malloc had memory left for the blob and for the buffer;
\* enough_space is never assigned, so it holds whatever malloc's memory held.
tc_create(width, height, symbol, foreground, background, mode_, blob_ok, buffer_ok, garbage) ==
  [width |-> width, height |-> height,
   pixels |-> IF blob_ok /\ BlobBytes(width, height) >= 0
                THEN FilledPixels(width, height,
                       TcPixel(background, foreground, symbol, Effect_None))
                ELSE <<>>,
   pixels_ptr |-> IF blob_ok /\ BlobBytes(width, height) >= 0
                    THEN "valid" ELSE "NULL",
   buffer_ptr |-> IF buffer_ok /\ BufferSize(width, height) >= 0
                    THEN "valid" ELSE "NULL",
   buffer_size |-> BufferSize(width, height),
   terminal_w |-> 0, terminal_h |-> 0,
   enough_space |-> garbage,
   mode |-> mode_]

\* Whether tc_create dereferences a null pointer before it returns: the
\* canvas itself, or the blob in the row loop (which runs when height > 0).
CreateFaults(width, height, canvas_ok, blob_ok) ==
  \/ ~canvas_ok
  \/ (~(blob_ok /\ BlobBytes(width, height) >= 0) /\ height > 0)

HIDE_CURSOR == <<ESC, "[", "?", "2", "5", "l">>
SHOW_CURSOR == <<ESC, "[", "?", "2", "5", "h">>
TO_BUFFER == <<ESC, "[", "?", "1", "0", "4", "9", "h">>
FROM_BUFFER == <<ESC, "[", "?", "1", "0", "4", "9", "l">>
CLEAR_SCREEN == <<ESC, "[", "H", ESC, "[", "J">>

\* ------------------------------------------------------------------ inputs
CreateSizes == ((-1..MaxW) \X (-1..MaxH)) \cup {<<BigW, BigH>>}

\* COLORTERM, TERM, and what tput would answer.
Envs ==
  { [colorterm |-> EnvStr(S_truecolor), term |-> EnvStr(S_xterm_256color),
     tput_exists |-> TRUE, tput_result |-> 256],
    [colorterm |-> Unset, term |-> EnvStr(S_xterm_256color),
     tput_exists |-> TRUE, tput_result |-> 256],
    [colorterm |-> Unset, term |-> EnvStr(S_dumb),
     tput_exists |-> FALSE, tput_result |-> -1] }

\* Which of tc_create's three malloc calls finds no memory.
AllocFailures == {"none", "canvas", "blob", "buffer"}

Fills == { <<".", COLOR_WHITE, COLOR_BLACK>>, <<"+", COLOR_NONE, COLOR_NONE>> }

\* What isatty and ioctl(TIOCGWINSZ) answer.
TermQueries ==
  { [tty |-> FALSE, ioctl_ok |-> FALSE, col |-> 0, row |-> 0],
    [tty |-> TRUE, ioctl_ok |-> FALSE, col |-> 0, row |-> 0],
    [tty |-> TRUE, ioctl_ok |-> TRUE, col |-> 0, row |-> 50],
    [tty |-> TRUE, ioctl_ok |-> TRUE, col |-> 100, row |-> 0],
    [tty |-> TRUE, ioctl_ok |-> TRUE, col |-> 2, row |-> 1],
    [tty |-> TRUE, ioctl_ok |-> TRUE, col |-> 3, row |-> 130] }

Effects == {Effect_None, Effect_Bold}

\* cached and probed are tc_create's: the cached_colors it found and whether
\* it ran tput.
Call(op, args, pre) ==
  [op |-> op, args |-> args, fit |-> FALSE, cleared |-> FALSE, hi |-> -1,
   pre |-> pre, ok |-> TRUE, cached |-> 0, probed |-> FALSE]

\* ------------------------------------------------------------------ actions
Init ==
  /\ proc = "running"
  /\ screen = "NULL"
  /\ canvas = NoCanvas
  /\ heap = "ok"
  /\ cached_colors = -2
  /\ cursor_visible = TRUE
  /\ alt_screen = FALSE
  /\ out = <<>>
  /\ last = NoCall
  /\ nops = 0
  /\ probes = 0
  /\ ret = NoRet

\* get_cached_tput_colors spawns tput when nothing is cached yet and the
\* tput binary is there.
Probes(cached, tput_exists) == cached = -2 /\ tput_exists

\* screen = tc_create(...), the handle being one of Handles before the call,
\* in an environment of Es.
TcCreateOn(Handles, Sizes, Es, Fails) ==
  /\ proc = "running"
  /\ screen \in Handles
  /\ \E size \in Sizes, fill \in Fills, env \in Es,
        fail \in Fails, garbage \in BOOLEAN :
       LET width == size[1]
           height == size[2]
           tput_colors == get_cached_tput_colors(cached_colors,
                            env.tput_exists, env.tput_result)
           m == get_terminal_mode(tput_colors, env.colorterm, env.term)
           resolved == fail # "canvas"
           probed == resolved /\ Probes(cached_colors, env.tput_exists)
           call == [Call("tc_create", <<width, height>>, <<>>)
                      EXCEPT !.cached = cached_colors, !.probed = probed]
       IN IF CreateFaults(width, height, fail # "canvas", fail # "blob")
            THEN /\ proc' = "crashed"
                 /\ cached_colors' = IF resolved THEN tput_colors
                                     ELSE cached_colors
                 /\ probes' = IF probed THEN probes + 1 ELSE probes
                 /\ last' = [call EXCEPT !.ok = FALSE]
                 /\ UNCHANGED <<screen, canvas, heap, cursor_visible,
                                alt_screen, out, nops, ret>>
            ELSE /\ canvas' = tc_create(width, height, fill[1], fill[2],
                                fill[3], m, fail # "blob", fail # "buffer",
                                garbage)
                 /\ screen' = "live"
                 /\ cached_colors' = tput_colors
                 /\ cursor_visible' = FALSE
                 /\ alt_screen' = TRUE
                 /\ out' = << <<Tok("hide_cursor", HIDE_CURSOR)>>,
                              <<Tok("to_buffer", TO_BUFFER)>> >>
                 /\ probes' = IF probed THEN probes + 1 ELSE probes
                 /\ last' = [call EXCEPT
                               !.ok = (fail = "none" /\ width > 0 /\ height > 0)]
                 /\ UNCHANGED <<proc, heap, nops, ret>>

\* main: screen = tc_create(...)
TcCreate == TcCreateOn({"NULL"}, CreateSizes, Envs, AllocFailures)

\* tc_show(screen) on a terminal that answers the size query with one of
\* Queries. A store past the end of a buffer is undefined. Past the local
\* buffer of the fallback view it overwrites the stack of tc_show_too_small:
\* the process dies when that function returns, after its write and before
\* tc_show records the fit state, or it goes on. Past the staging buffer it
\* overwrites the heap: the call faults, or goes on with a corrupted heap.
TcShowOn(Queries) ==
  /\ proc = "running"
  /\ screen = "live"
  /\ \E q \in Queries, fault \in BOOLEAN :
       LET c == SizeSampled(canvas, q)
           call == Call("tc_show", <<q.tty, q.ioctl_ok, q.col, q.row>>,
                        canvas.pixels)
       IN IF TooSmall(c)
            THEN LET b == tc_show_too_small(c)
                     smashed == b.hi >= TOO_SMALL_BUF
                 IN /\ fault => smashed
                    /\ out' = b.writes
                    /\ last' = [call EXCEPT !.hi = b.hi, !.ok = ~fault]
                    /\ proc' = IF fault THEN "crashed" ELSE "running"
                    /\ canvas' = IF fault THEN c
                                 ELSE [c EXCEPT !.enough_space = FALSE]
                    /\ UNCHANGED <<screen, heap, cached_colors,
                                   cursor_visible, alt_screen, nops, probes,
                                   ret>>
            ELSE IF c.buffer_ptr = "NULL"
              THEN /\ ~fault
                   /\ proc' = "crashed"
                   /\ canvas' = c
                   /\ out' = <<>>
                   /\ last' = [call EXCEPT !.fit = TRUE, !.ok = FALSE]
                   /\ UNCHANGED <<screen, heap, cached_colors, cursor_visible,
                                  alt_screen, nops, probes, ret>>
              ELSE LET b == ShowNormal(c)
                       overflow == b.hi >= c.buffer_size
                   IN /\ fault => overflow
                      /\ out' = IF fault THEN <<>> ELSE b.writes
                      /\ last' = [call EXCEPT !.fit = TRUE, !.hi = b.hi,
                                    !.cleared = ~c.enough_space,
                                    !.ok = ~fault]
                      /\ proc' = IF fault THEN "crashed" ELSE "running"
                      /\ canvas' = [c EXCEPT !.enough_space = TRUE]
                      /\ heap' = IF overflow THEN "corrupt" ELSE heap
                      /\ UNCHANGED <<screen, cached_colors, cursor_visible,
                                     alt_screen, nops, probes, ret>>

TcShow == TcShowOn(TermQueries)

\* tc_destroy(screen), also on a null or an already destroyed handle.
\* free() of a block of a corrupted heap, or of a block already freed, is
\* undefined: the allocator aborts the process or goes on.
TcDestroy ==
  /\ proc = "running"
  /\ \E abort \in BOOLEAN :
       LET call == Call("tc_destroy", <<screen>>, canvas.pixels)
       IN IF screen = "NULL"
            THEN /\ ~abort
                 /\ last' = call
                 /\ out' = <<>>
                 /\ UNCHANGED <<proc, screen, canvas, heap, cached_colors,
                                cursor_visible, alt_screen, nops, probes,
                                ret>>
            ELSE /\ abort => (heap = "corrupt" \/ screen = "freed")
                 /\ last' = [call EXCEPT !.ok = ~abort]
                 /\ heap' = IF screen = "freed" THEN "corrupt" ELSE heap
                 /\ IF abort
                      THEN /\ proc' = "crashed"
                           /\ out' = <<>>
                           /\ UNCHANGED <<screen, canvas, cached_colors,
                                          cursor_visible, alt_screen, nops,
                                          probes, ret>>
                      ELSE /\ screen' = "freed"
                           /\ out' = << <<Tok("clear", CLEAR_SCREEN)>>,
                                        <<Tok("from_buffer", FROM_BUFFER)>>,
                                        <<Tok("show_cursor", SHOW_CURSOR)>> >>
                           /\ alt_screen' = FALSE
                           /\ cursor_visible' = TRUE
                           /\ UNCHANGED <<proc, canvas, cached_colors, nops,
                                          probes, ret>>

\* A drawing call has run and left the grid in m: a store outside the blob
\* is undefined, the process faults or goes on with a corrupted heap.
Drawn(call, m, fault) ==
  /\ fault => m.oob
  /\ canvas' = [canvas EXCEPT !.pixels = m.px]
  /\ heap' = IF m.oob THEN "corrupt" ELSE heap
  /\ proc' = IF fault THEN "crashed" ELSE "running"
  /\ last' = [call EXCEPT !.ok = ~m.oob]
  /\ out' = <<>>
  /\ nops' = nops + 1
  /\ UNCHANGED <<screen, cached_colors, cursor_visible, alt_screen, probes,
                 ret>>

CanDraw == proc = "running" /\ screen = "live" /\ nops < MaxOps

\* The addition of a guard trapped: the process dies, nothing was drawn.
Trapped(call) ==
  /\ proc' = "crashed"
  /\ last' = [call EXCEPT !.ok = FALSE]
  /\ out' = <<>>
  /\ nops' = nops + 1
  /\ UNCHANGED <<screen, canvas, heap, cached_colors, cursor_visible,
                 alt_screen, probes, ret>>

CoordXs == (-1..MaxW) \cup {INT_MAX}
CoordYs == (-1..MaxH) \cup {INT_MAX}
Extents == (0..MaxW) \cup {INT_MAX}

\* foreground and background of a drawing call
Paints == { <<COLOR_RED, COLOR_NONE>>, <<COLOR_NONE, COLOR_BLUE>> }

Texts == { <<"a">>, <<"a", "b", "c">> }

\* borders[0..7]: horizontal, vertical, the four corners, the two line ends
BorderChars == <<"-", "|", "1", "2", "3", "4", "<", ">">>

\* tc_put_pixel(screen, x, y, L'#', foreground, background, Effect_Bold)
PutPixelAt(Xs, Ys, Ps) ==
  /\ CanDraw
  /\ \E x \in Xs, y \in Ys, paint \in Ps, fault \in BOOLEAN :
       Drawn(Call("tc_put_pixel", <<x, y, paint[1], paint[2]>>, canvas.pixels),
             tc_put_pixel(canvas, x, y, "#", paint[1], paint[2], Effect_Bold),
             fault)

TcPutPixel == PutPixelAt(CoordXs, CoordYs, Paints)

\* tc_draw_text(screen, x, y, text, foreground, background, effect)
DrawTextAt(Xs, Ys, Ts, Ps, Es) ==
  /\ CanDraw
  /\ \E x \in Xs, y \in Ys, text \in Ts, paint \in Ps, effect \in Es,
        fault \in BOOLEAN :
       Drawn(Call("tc_draw_text",
                  <<x, y, text, paint[1], paint[2], effect>>, canvas.pixels),
             tc_draw_text(canvas, x, y, text, paint[1], paint[2], effect),
             fault)

TcDrawText == DrawTextAt(CoordXs, CoordYs, Texts, Paints, Effects)

\* tc_draw_wtext(screen, x, y, text, foreground, background, effect)
DrawWTextAt(Xs, Ys, Ts, Ps, Es) ==
  /\ CanDraw
  /\ \E x \in Xs, y \in Ys, text \in Ts, paint \in Ps, effect \in Es,
        fault \in BOOLEAN :
       Drawn(Call("tc_draw_wtext",
                  <<x, y, text, paint[1], paint[2], effect>>, canvas.pixels),
             tc_draw_wtext(canvas, x, y, text, paint[1], paint[2], effect),
             fault)

TcDrawWText == DrawWTextAt(CoordXs, CoordYs, Texts, Paints, Effects)

\* x + width or y + height of a guard leaves the range of int: undefined,
\* the sum wraps around or the addition traps.
SumOverflows(a, b) == a > 0 /\ b > INT_MAX - a

\* tc_fill_area(screen, x, y, width, height, L'#', foreground, background,
\* Effect_Bold)
FillAreaAt(Xs, Ys, Ws, Hs, Ps) ==
  /\ CanDraw
  /\ \E x \in Xs, y \in Ys, width \in Ws, height \in Hs,
        paint \in Ps, trap \in BOOLEAN :
       IF trap
         THEN /\ x >= 0 /\ y >= 0 /\ width > 0 /\ height > 0
              /\ SumOverflows(x, width) \/ SumOverflows(y, height)
              /\ Trapped(Call("tc_fill_area",
                               <<x, y, width, height, paint[1], paint[2]>>,
                               canvas.pixels))
         ELSE Drawn(Call("tc_fill_area",
                         <<x, y, width, height, paint[1], paint[2]>>,
                         canvas.pixels),
                    tc_fill_area(canvas, x, y, width, height, "#", paint[1],
                                 paint[2], Effect_Bold),
                    FALSE)

TcFillArea == FillAreaAt(CoordXs, CoordYs, Extents, Extents, Paints)

TcDrawBorders ==
  /\ CanDraw
  /\ \E x \in CoordXs, y \in CoordYs, width \in Extents, height \in Extents,
        paint \in Paints, trap \in BOOLEAN, fault \in BOOLEAN :
       IF trap
         THEN /\ ~fault
              /\ x >= 0 /\ y >= 0 /\ width > 0 /\ height > 0
              /\ SumOverflows(x, width) \/ SumOverflows(y, height)
              /\ Trapped(Call("tc_draw_borders",
                               <<x, y, width, height, paint[1], paint[2]>>,
                               canvas.pixels))
         ELSE Drawn(Call("tc_draw_borders",
                         <<x, y, width, height, paint[1], paint[2]>>,
                         canvas.pixels),
                    tc_draw_borders(canvas, x, y, width, height, BorderChars,
                                    paint[1], paint[2], Effect_Bold),
                    fault)

TcDrawHLine ==
  /\ CanDraw
  /\ \E x \in CoordXs, y \in CoordYs, paint \in Paints, fault \in BOOLEAN :
       Drawn(Call("tc_draw_hline", <<x, y, paint[1], paint[2]>>, canvas.pixels),
             tc_draw_hline(canvas, x, y, BorderChars, paint[1], paint[2],
                           Effect_Bold),
             fault)

TcDrawVLine ==
  /\ CanDraw
  /\ \E x \in CoordXs, y \in CoordYs, paint \in Paints, fault \in BOOLEAN :
       Drawn(Call("tc_draw_vline", <<x, y, paint[1], paint[2]>>, canvas.pixels),
             tc_draw_vline(canvas, x, y, BorderChars, paint[1], paint[2],
                           Effect_Bold),
             fault)

\* main.c: create the frame, render it in a loop, destroy it.
Next == TcCreate \/ TcShow \/ TcDestroy

Spec == Init /\ [][Next]_vars

\* The state TcCreate leaves when every allocation succeeded, and after it
\* an optional tc_put_pixel(screen, 0, 0, L'o', COLOR_GREEN, COLOR_RED, ...).
AfterCreate(size, fill, env, garbage, spot) ==
  LET tput_colors == get_cached_tput_colors(-2, env.tput_exists,
                                            env.tput_result)
      m == get_terminal_mode(tput_colors, env.colorterm, env.term)
      c == tc_create(size[1], size[2], fill[1], fill[2], fill[3], m, TRUE,
                     TRUE, garbage)
  IN /\ proc = "running"
     /\ screen = "live"
     /\ canvas = IF spot
                   THEN [c EXCEPT !.pixels =
                           tc_put_pixel(c, 0, 0, "o", COLOR_GREEN, COLOR_RED,
                                        Effect_None).px]
                   ELSE c
     /\ heap = "ok"
     /\ cached_colors = tput_colors
     /\ cursor_visible = FALSE
     /\ alt_screen = TRUE
     /\ out = << <<Tok("hide_cursor", HIDE_CURSOR)>>,
                 <<Tok("to_buffer", TO_BUFFER)>> >>
     /\ last = [Call("tc_create", size, <<>>)
                 EXCEPT !.cached = -2, !.probed = env.tput_exists]
     /\ nops = 0
     /\ probes = IF env.tput_exists THEN 1 ELSE 0
     /\ ret = NoRet

\* Rendering of drawn frames: the 5x1 frame of the spec's example, a small
\* frame, and a one-row and a many-row frame wide enough for a staging
\* buffer that holds a row.
RenderSizes == { <<5, 1>>, <<MaxW, MaxH>>, <<RowW, 1>>, <<BigW, BigH>> }

\* A terminal every frame of RenderSizes fits in: standard output is not a
\* terminal, the size is the 80x24 default.
FitQueries == { [tty |-> FALSE, ioctl_ok |-> FALSE, col |-> 0, row |-> 0] }

InitRender ==
  \E size \in RenderSizes, fill \in Fills, env \in Envs, garbage \in BOOLEAN :
    AfterCreate(size, fill, env, garbage, FALSE)

TcShowFit == TcShowOn(FitQueries)

\* The drawing calls made before a render: a cell or a short text at the
\* start of a row or further in it, in the first row or a later one, in a
\* colour, bold, or both.
RenderXs == {0, MaxW - 1}
RenderYs == {0, MaxH - 1}

RenderPutPixel ==
  PutPixelAt(RenderXs, RenderYs, { <<COLOR_RED, COLOR_NONE>> })

RenderDrawText ==
  DrawTextAt(RenderXs, RenderYs, { <<"a", "b">> },
             { <<COLOR_NONE, COLOR_NONE>>, <<COLOR_RED, COLOR_NONE>> },
             {Effect_Bold})

NextRender == RenderPutPixel \/ RenderDrawText \/ TcShowFit

SpecRender == InitRender /\ [][NextRender]_vars

\* One drawing primitive at a time on small frames.
DrawSizes == (1..MaxW) \X (1..MaxH)

InitDraw ==
  \E size \in DrawSizes, spot \in BOOLEAN :
    AfterCreate(size, <<".", COLOR_WHITE, COLOR_BLACK>>,
                [colorterm |-> Unset, term |-> Unset, tput_exists |-> FALSE,
                 tput_result |-> 0],
                TRUE, spot)

NextDraw ==
  \/ TcPutPixel
  \/ TcFillArea
  \/ TcDrawBorders
  \/ TcDrawHLine
  \/ TcDrawVLine
  \/ TcDrawText
  \/ TcDrawWText

SpecDraw == InitDraw /\ [][NextDraw]_vars

\* The first drawing call on a frame: a cell, an area or a text inside the
\* frame or reaching just past its right or lower edge, with every
\* combination of a colour and no colour, on a grid whose cells have colours
\* or none.
InitPaint ==
  \E size \in DrawSizes, fill \in Fills, spot \in BOOLEAN :
    AfterCreate(size, fill,
                [colorterm |-> Unset, term |-> Unset, tput_exists |-> FALSE,
                 tput_result |-> 0],
                TRUE, spot)

FirstDraw == last.op = "tc_create"

PaintXs == 0..MaxW
PaintYs == 0..MaxH
PaintExtents == 1..MaxW

AllPaints ==
  Paints \cup { <<COLOR_RED, COLOR_BLUE>>, <<COLOR_NONE, COLOR_NONE>> }

PaintPixel == FirstDraw /\ PutPixelAt(PaintXs, PaintYs, AllPaints)

PaintArea ==
  /\ FirstDraw
  /\ FillAreaAt(PaintXs, PaintYs, PaintExtents, PaintExtents, AllPaints)

PaintText == FirstDraw /\ DrawTextAt(PaintXs, PaintYs, Texts, Paints, Effects)

PaintWText ==
  FirstDraw /\ DrawWTextAt(PaintXs, PaintYs, Texts, Paints, Effects)

NextPaint == PaintPixel \/ PaintArea \/ PaintText \/ PaintWText

SpecPaint == InitPaint /\ [][NextPaint]_vars

\* A conversion function applied to a colour, once in a run. The channels
\* are those of the sixteen references, values halfway between two of them,
\* and values next to those.
QuantChannels == {0, 64, 127, 128, 160, 192, 224, 255}

QuantColors == {RGB(r, g, b) : r, g, b \in QuantChannels}

\* The centres of the 24 gray buckets of the 256-colour palette.
GrayCentres == {RGB(8 + 10 * i, 8 + 10 * i, 8 + 10 * i) : i \in 0..23}

\* rgb_to_ansi_base(fg_color, bg_color): each colour in turn next to a
\* second one, on either side.
RgbToAnsiBase ==
  /\ ret.op = "none"
  /\ \E c \in QuantColors, d \in {COLOR_BLACK, RGB(160, 160, 160)},
        swap \in BOOLEAN :
       LET fg == IF swap THEN d ELSE c
           bg == IF swap THEN c ELSE d
       IN ret' = [op |-> "rgb_to_ansi_base", args |-> <<fg, bg>>,
                  val |-> rgb_to_ansi_base(fg, bg)]
  /\ UNCHANGED <<proc, screen, canvas, heap, cached_colors, cursor_visible,
                 alt_screen, out, last, nops, probes>>

\* rgb_to_256_index(color)
RgbTo256Index ==
  /\ ret.op = "none"
  /\ \E c \in QuantColors \cup GrayCentres :
       ret' = [op |-> "rgb_to_256_index", args |-> <<c>>,
               val |-> rgb_to_256_index(c)]
  /\ UNCHANGED <<proc, screen, canvas, heap, cached_colors, cursor_visible,
                 alt_screen, out, last, nops, probes>>

NextQuantize == RgbToAnsiBase \/ RgbTo256Index

SpecQuantize == Init /\ [][NextQuantize]_vars

\* get_terminal_mode for a probe result, a COLORTERM and a TERM, once in a
\* run. The probe results lie on either side of the two thresholds; the
\* TERM values name a family of the list, 256color with and without a
\* family, a truecolor indicator, or nothing known.
S_screen_256color == <<"s", "c", "r", "e", "e", "n", "-">> \o S_256color
S_24bit == <<"2", "4", "b", "i", "t">>

DetectProbes == {-1, 8, 255, 256, 16777215, 16777216}

DetectColorterms == {Unset, EnvStr(<<>>), EnvStr(S_24bit), EnvStr(S_truecolor)}

DetectTerms ==
  {Unset, EnvStr(<<>>), EnvStr(S_dumb), EnvStr(S_xterm),
   EnvStr(<<"l", "i", "n", "u", "x">>), EnvStr(S_xterm_256color),
   EnvStr(S_screen_256color), EnvStr(S_xterm_direct),
   EnvStr(S_xterm_truecolor)}

GetTerminalMode ==
  /\ ret.op = "none"
  /\ \E tput_colors \in DetectProbes, colorterm \in DetectColorterms,
        term \in DetectTerms :
       ret' = [op |-> "get_terminal_mode",
               args |-> <<tput_colors, colorterm, term>>,
               val |-> get_terminal_mode(tput_colors, colorterm, term)]
  /\ UNCHANGED <<proc, screen, canvas, heap, cached_colors, cursor_visible,
                 alt_screen, out, last, nops, probes>>

SpecDetect == Init /\ [][GetTerminalMode]_vars

\* Frames made one after another in one process, each destroyed before the
\* next is made, while COLORTERM and TERM are set anew and tput comes and
\* goes between the calls. tput prints the number of colours of the terminal
\* description, -1 when the description has none, or nothing (read as -1).
ModeEnvs ==
  [colorterm : {Unset, EnvStr(S_truecolor)},
   term : {Unset, EnvStr(S_dumb), EnvStr(S_xterm), EnvStr(S_xterm_256color)},
   tput_exists : BOOLEAN,
   tput_result : {-1, 8, 256, 16777216}]

TcCreateAgain == TcCreateOn({"NULL", "freed"}, {<<1, 1>>}, ModeEnvs, {"none"})

NextMode == TcCreateAgain \/ TcDestroy

SpecMode == Init /\ [][NextMode]_vars

\* ------------------------------------------------------------ the claims
\* What the last call wrote to the terminal, as one stream of tokens.
Stream == Concat(out)

IsGlyph(tk) == tk.k = "glyph"
IsStyle(tk) == tk.k \in {"style", "rowstyle"}

\* Positions in the stream st of the glyphs, in the order written.
GlyphPos(st) ==
  SelectSeq([i \in 1..Len(st) |-> i], LAMBDA i : IsGlyph(st[i]))

\* Number of style sequences of st strictly between positions i and j.
StylesBetween(st, i, j) ==
  Cardinality({k \in (i + 1)..(j - 1) : IsStyle(st[k])})

SameStyle(p, q) ==
  /\ p.foreground = q.foreground
  /\ p.background = q.background
  /\ p.effect = q.effect

\* The last call was a tc_show that rendered the grid and returned.
NormalRender ==
  last.op = "tc_show" /\ last.fit /\ last.ok /\ proc = "running"

\* No store of that render went past the end of the staging buffer.
InBuffer == last.hi < canvas.buffer_size

\* The frame is one tc_create made with positive dimensions and with every
\* allocation successful.
ProperFrame ==
  /\ canvas.width > 0 /\ canvas.height > 0
  /\ canvas.pixels_ptr = "valid" /\ canvas.buffer_ptr = "valid"

\* C1: every store of a fitting tc_show on a frame of positive dimensions
\* lands at an index strictly below buffer_size.
C1_BufferNeverOverflows ==
  (last.op = "tc_show" /\ last.fit /\ ProperFrame) => InBuffer

\* The size the claim C2 expects tc_show to sample, from the answers of the
\* query recorded with the call: <<isatty, ioctl's success, ws_col, ws_row>>.
ExpectedSize(args) ==
  IF args[1] /\ args[2] /\ args[3] > 0 /\ args[4] > 0
    THEN <<args[3], args[4]>>
    ELSE <<80, 24>>

\* C2: every tc_show samples the terminal size (80x24 when the query is
\* unavailable or reports a zero dimension); a frame wider or taller than
\* that gets only the diagnostic view, no glyph of the grid, and the fit
\* state 'did not fit'; a frame that fits gets the grid rendered.
C2_SizeSampledAndFallback ==
  (last.op = "tc_show" /\ ProperFrame) =>
    LET size == ExpectedSize(last.args)
        st == Stream
        gp == GlyphPos(st)
    IN /\ canvas.terminal_w = size[1]
       /\ canvas.terminal_h = size[2]
       /\ IF canvas.width > size[1] \/ canvas.height > size[2]
            THEN /\ \E i \in 1..Len(st) : st[i].k = "number"
                 /\ gp = <<>>
                 /\ ~canvas.enough_space
            ELSE /\ Len(gp) = canvas.width * canvas.height
                 /\ \A n \in 1..Len(gp) :
                      st[gp[n]].t = <<canvas.pixels[n].symbol>>
                 /\ canvas.enough_space

\* Cells n and n + 1 of the row-major order lie in the same row.
SameRow(n) == n % canvas.width # 0

\* C3 as claimed: in a normal render no style sequence is emitted between
\* the glyphs of two cells adjacent in row-major order that have the same
\* foreground, background and effect, the last cell of a row and the first
\* of the next row included. Stated of the renders that stay in the buffer.
C3_NoStyleBetweenEqualCells ==
  (NormalRender /\ InBuffer) =>
    LET st == Stream
        gp == GlyphPos(st)
    IN \A n \in 1..(Len(gp) - 1) :
      SameStyle(canvas.pixels[n], canvas.pixels[n + 1])
        => StylesBetween(st, gp[n], gp[n + 1]) = 0

\* C3 amended: in a normal render no style sequence is emitted between the
\* glyphs of two cells adjacent in the same row that have the same
\* foreground, background and effect.
C3_NoStyleBetweenEqualCellsOfARow ==
  NormalRender =>
    LET st == Stream
        gp == GlyphPos(st)
    IN \A n \in 1..(Len(gp) - 1) :
      (SameRow(n) /\ SameStyle(canvas.pixels[n], canvas.pixels[n + 1]))
        => StylesBetween(st, gp[n], gp[n + 1]) = 0

\* A render of a frame of several rows that stayed in its buffer, with two
\* equal neighbours in a row and a cell style sequence later in the stream.
C3_Witness ==
  /\ NormalRender /\ InBuffer
  /\ canvas.height > 1
  /\ LET st == Stream
         gp == GlyphPos(st)
     IN \E n \in 1..(Len(gp) - 1) :
          /\ SameRow(n) /\ SameStyle(canvas.pixels[n], canvas.pixels[n + 1])
          /\ \E k \in (gp[n + 1] + 1)..Len(st) : st[k].k = "style"

\* C4 as claimed: in a normal render exactly one style sequence is emitted
\* between the glyphs of two cells adjacent in row-major order whose styles
\* differ. Stated of the renders that stay in the buffer.
C4_OneStyleBetweenDifferentCells ==
  (NormalRender /\ InBuffer) =>
    LET st == Stream
        gp == GlyphPos(st)
    IN \A n \in 1..(Len(gp) - 1) :
      ~SameStyle(canvas.pixels[n], canvas.pixels[n + 1])
        => StylesBetween(st, gp[n], gp[n + 1]) = 1

\* C4 amended: in a normal render exactly one style sequence is emitted
\* between the glyphs of two cells adjacent in the same row whose styles
\* differ in foreground, background or effect.
C4_OneStyleBetweenDifferentCellsOfARow ==
  NormalRender =>
    LET st == Stream
        gp == GlyphPos(st)
    IN \A n \in 1..(Len(gp) - 1) :
      (SameRow(n) /\ ~SameStyle(canvas.pixels[n], canvas.pixels[n + 1]))
        => StylesBetween(st, gp[n], gp[n + 1]) = 1

\* A render that stayed in its buffer, with two neighbours in a row that
\* differ only in their effect.
C4_Witness ==
  /\ NormalRender /\ InBuffer
  /\ \E n \in 1..(canvas.width * canvas.height - 1) :
       /\ SameRow(n)
       /\ canvas.pixels[n].foreground = canvas.pixels[n + 1].foreground
       /\ canvas.pixels[n].background = canvas.pixels[n + 1].background
       /\ canvas.pixels[n].effect # canvas.pixels[n + 1].effect

\* Number of maximal runs of cells of one style in a one-row frame.
Runs ==
  1 + Cardinality({n \in 1..(canvas.width - 1) :
                     ~SameStyle(canvas.pixels[n], canvas.pixels[n + 1])})

\* C5: the fitting render of a one-row frame of k runs of one style holds
\* exactly k style sequences, each right before a glyph, and ends with the
\* clear-to-end-of-line and newline followed by one full reset.
C5_OneRowFrame ==
  (NormalRender /\ ProperFrame /\ canvas.height = 1) =>
    LET st == Stream
    IN /\ Cardinality({k \in 1..Len(st) : IsStyle(st[k])}) = Runs
       /\ \A k \in 1..Len(st) :
            IsStyle(st[k]) => (k < Len(st) /\ IsGlyph(st[k + 1]))
       /\ Len(st) >= 2
       /\ st[Len(st) - 1].t = EolText
       /\ st[Len(st)].t = SGR_RESET

\* The target of a drawing call lies fully inside the grid: the cell (x, y),
\* or the rectangle of the given extents at (x, y).
CellInside(x, y) ==
  0 <= x /\ x < canvas.width /\ 0 <= y /\ y < canvas.height

AreaInside(x, y, width, height) ==
  /\ x >= 0 /\ y >= 0 /\ width > 0 /\ height > 0
  /\ width <= canvas.width - x
  /\ height <= canvas.height - y

\* C6: tc_fill_area, tc_draw_borders and tc_put_pixel called with a target
\* that is not fully inside the grid leave every cell as it was.
C6_OutsideLeavesGridUnchanged ==
  /\ (last.op = "tc_put_pixel" /\ ~CellInside(last.args[1], last.args[2]))
       => canvas.pixels = last.pre
  /\ (/\ last.op \in {"tc_fill_area", "tc_draw_borders"}
      /\ ~AreaInside(last.args[1], last.args[2], last.args[3], last.args[4]))
       => canvas.pixels = last.pre

\* Cells (1-based, row-major) the last drawing call changed.
Changed == {n \in 1..Len(canvas.pixels) : canvas.pixels[n] # last.pre[n]}

RowOf(n) == (n - 1) \div canvas.width
ColOf(n) == (n - 1) % canvas.width

\* C7: tc_draw_hline and tc_draw_vline never store outside the grid: no
\* store leaves the blob, a horizontal rule from (x, y) changes cells of
\* row y only and a vertical rule cells of column x only.
C7_RulesStayInsideGrid ==
  /\ last.op \in {"tc_draw_hline", "tc_draw_vline"} => last.ok
  /\ last.op = "tc_draw_hline" => \A n \in Changed : RowOf(n) = last.args[2]
  /\ last.op = "tc_draw_vline" => \A n \in Changed : ColOf(n) = last.args[1]

\* C8: tc_create returns a frame only when both dimensions are positive and
\* every allocation succeeded (recorded in last.ok by the call); otherwise
\* it returns to the caller without a frame.
C8_CreateFailsCleanly ==
  last.op = "tc_create" =>
    /\ proc = "running"
    /\ (screen = "live") <=> last.ok
    /\ screen = "live" => ProperFrame

\* C9: tc_destroy on a null handle or on a handle already destroyed does
\* nothing: it does not fault, frees nothing again, writes nothing.
C9_DestroyTwiceIsNoOp ==
  (last.op = "tc_destroy" /\ last.args[1] \in {"NULL", "freed"}) =>
    /\ proc = "running"
    /\ heap # "corrupt"
    /\ out = <<>>

\* C10: tc_destroy of a frame made by tc_create, after any number of
\* renders, releases it and writes the restore sequence: the terminal is
\* back on the primary screen with the cursor visible.
C10_DestroyRestoresTerminal ==
  (last.op = "tc_destroy" /\ last.args[1] = "live" /\ ProperFrame) =>
    /\ proc = "running"
    /\ screen = "freed"
    /\ ~alt_screen
    /\ cursor_visible
    /\ \E i \in 1..Len(Stream) : Stream[i].t = FROM_BUFFER
    /\ \E i \in 1..Len(Stream) : Stream[i].t = SHOW_CURSOR

\* The cells (1-based, row-major) of the last tc_put_pixel or tc_fill_area.
PaintTarget ==
  IF last.op = "tc_put_pixel"
    THEN {last.args[2] * canvas.width + last.args[1] + 1}
    ELSE {n \in 1..Len(canvas.pixels) :
            /\ last.args[1] <= ColOf(n)
            /\ ColOf(n) < last.args[1] + last.args[3]
            /\ last.args[2] <= RowOf(n)
            /\ RowOf(n) < last.args[2] + last.args[4]}

PaintInside ==
  \/ last.op = "tc_put_pixel" /\ CellInside(last.args[1], last.args[2])
  \/ /\ last.op = "tc_fill_area"
     /\ AreaInside(last.args[1], last.args[2], last.args[3], last.args[4])

PaintFg == IF last.op = "tc_put_pixel" THEN last.args[3] ELSE last.args[5]
PaintBg == IF last.op = "tc_put_pixel" THEN last.args[4] ELSE last.args[6]

\* C11: an in-bounds tc_put_pixel or tc_fill_area gives every target cell
\* the glyph, overwrites a channel whose argument is a colour and leaves a
\* channel whose argument is none as it was; every other cell is unchanged.
C11_NoneLeavesChannel ==
  PaintInside =>
    /\ last.ok
    /\ \A n \in 1..Len(canvas.pixels) :
         IF n \in PaintTarget
           THEN /\ canvas.pixels[n].symbol = "#"
                /\ canvas.pixels[n].foreground =
                     (IF is_none(PaintFg) THEN last.pre[n].foreground
                      ELSE PaintFg)
                /\ canvas.pixels[n].background =
                     (IF is_none(PaintBg) THEN last.pre[n].background
                      ELSE PaintBg)
           ELSE canvas.pixels[n] = last.pre[n]

\* An area of several cells, one of them of other colours than the rest, was
\* filled with a foreground and no background inside a larger frame.
C11_Witness ==
  /\ last.op = "tc_fill_area"
  /\ PaintInside
  /\ Cardinality(PaintTarget) > 1
  /\ Cardinality(PaintTarget) < Len(canvas.pixels)
  /\ is_none(PaintBg) /\ ~is_none(PaintFg)
  /\ \E n \in PaintTarget, k \in PaintTarget :
       /\ canvas.pixels[n].background # canvas.pixels[k].background
       /\ canvas.pixels[n].foreground = PaintFg
       /\ last.pre[n].foreground # PaintFg

\* The cells of row y the last text call is to write: min(L, width - x)
\* cells from column x.
TextTarget ==
  {n \in 1..Len(canvas.pixels) :
     /\ RowOf(n) = last.args[2]
     /\ last.args[1] <= ColOf(n)
     /\ ColOf(n) < last.args[1]
                     + Min(Len(last.args[3]), canvas.width - last.args[1])}

TextInside ==
  /\ last.op \in {"tc_draw_text", "tc_draw_wtext"}
  /\ CellInside(last.args[1], last.args[2])

\* C12: tc_draw_text and tc_draw_wtext at an in-bounds (x, y) write the
\* first min(L, width - x) characters of the text into row y from column x,
\* character i into cell x + i, and modify no other cell.
C12_TextTruncatedAtRightEdge ==
  TextInside =>
    /\ last.ok
    /\ \A n \in 1..Len(canvas.pixels) :
         IF n \in TextTarget
           THEN canvas.pixels[n].symbol =
                  last.args[3][ColOf(n) - last.args[1] + 1]
           ELSE canvas.pixels[n] = last.pre[n]

\* A text longer than the rest of its row was drawn in a row that is not
\* the last one.
C12_Witness ==
  /\ TextInside
  /\ last.args[1] + Len(last.args[3]) > canvas.width
  /\ last.args[2] < canvas.height - 1
  /\ Cardinality(TextTarget) > 1
  /\ \A n \in TextTarget : canvas.pixels[n] # last.pre[n]

\* The sixteen Base references in the order standard 0..7, bright 0..7.
BaseRef(i) == IF i < 8 THEN basic_colors[i + 1] ELSE bright_colors[i - 7]

\* The lowest index among the references nearest to c.
NearestRef(c) ==
  CHOOSE i \in 0..15 :
    /\ \A j \in 0..15 : Dist2(c, BaseRef(i)) <= Dist2(c, BaseRef(j))
    /\ \A j \in 0..(i - 1) : Dist2(c, BaseRef(j)) > Dist2(c, BaseRef(i))

\* 30+i / 40+i for a standard index, 90+i / 100+i for a bright one.
BaseCode(index, ground) ==
  IF index < 8 THEN ground + index ELSE ground + 60 + (index - 8)

\* C13: in Base mode the foreground and the background are each encoded,
\* independently, by the nearest of the sixteen references, the lowest
\* index winning a tie, as 30+i / 40+i (standard) or 90+i / 100+i (bright);
\* a reference colour is encoded by its own index.
C13_BaseNearestReference ==
  ret.op = "rgb_to_ansi_base" =>
    LET fg == ret.args[1]
        bg == ret.args[2]
    IN /\ ret.val = CSI \o IntStr(BaseCode(NearestRef(fg), 30)) \o <<";">>
                      \o IntStr(BaseCode(NearestRef(bg), 40)) \o <<"m">>
       /\ \A i \in 0..15 :
            fg = RGB(BaseRef(i)[1], BaseRef(i)[2], BaseRef(i)[3])
              => /\ NearestRef(fg) = i
                 /\ Dist2(fg, BaseRef(i)) = 0

\* A foreground as far from light gray as from dark gray, both nearest, was
\* encoded as light gray (37), next to a background encoded as black.
C13_Witness ==
  /\ ret.op = "rgb_to_ansi_base"
  /\ ret.args = <<RGB(160, 160, 160), COLOR_BLACK>>
  /\ Dist2(ret.args[1], BaseRef(7)) = Dist2(ret.args[1], BaseRef(8))
  /\ ret.val = CSI \o <<"3", "7", ";", "4", "0", "m">>

\* C14: the gray whose channels all equal the centre 8 + 10 * i of bucket i
\* is mapped to palette index 232 + i, for every i in 0..23.
C14_GrayCentreToItsBucket ==
  \A i \in 0..23 :
    (/\ ret.op = "rgb_to_256_index"
     /\ ret.args[1] = RGB(8 + 10 * i, 8 + 10 * i, 8 + 10 * i))
      => ret.val = 232 + i

\* The texts of the stale-row clear of a terminal h rows high: a cursor move
\* to row y and a clear-to-end-of-line, for y = 0 .. h/2 + 1.
StaleRowClear(h) ==
  [y1 \in 1..(CDiv(h, 2) + 2) |->
     CSI \o IntStr(y1 - 1) \o <<";", "0", "H">> \o CLEAR_EOL]

\* The texts of the tokens of kind k in the stream st, in order.
TextsOf(st, k) ==
  LET sel == SelectSeq(st, LAMBDA tk : tk.k = k)
  IN [i \in 1..Len(sel) |-> sel[i].t]

\* The kinds of token the fallback view is made of.
FallbackKinds == {"gotoxy", "space", "number", "times", "eol", "reset"}

\* C15: a tc_show that follows another tc_show on a frame emits the
\* stale-row clear, one clear-to-end-of-line for each row 0 .. terminal_h/2
\* + 1, exactly when it fits and the render before it was in fallback mode;
\* a render that does not fit emits the fallback view and nothing else.
C15_ClearExactlyAfterFallback ==
  [][(last.op = "tc_show" /\ last'.op = "tc_show" /\ ProperFrame) =>
       LET size == ExpectedSize(last'.args)
           fits == ~(canvas.width > size[1] \/ canvas.height > size[2])
           st == Stream'
           clears == TextsOf(st, "clear")
       IN /\ IF fits /\ ~last.fit
               THEN clears = StaleRowClear(size[2])
               ELSE clears = <<>>
          /\ ~fits => \A i \in 1..Len(st) : st[i].k \in FallbackKinds]_vars

\* C16: the first tc_show on a newly created frame that fits the terminal
\* emits no stale-row clear.
C16_FirstRenderEmitsNoClear ==
  [][(last.op = "tc_create" /\ last'.op = "tc_show" /\ last'.fit
        /\ ProperFrame /\ proc' = "running")
       => TextsOf(Stream', "clear") = <<>>]_vars

\* The glyphs (by their rank in the stream) that end a row of the grid.
RowEnds(gp) == {n \in 1..Len(gp) : ~SameRow(n)}

C18_ShowLeavesFrameUnchanged ==
  [][last'.op = "tc_show" =>
       /\ canvas'.width = canvas.width
       /\ canvas'.height = canvas.height
       /\ canvas'.mode = canvas.mode
       /\ canvas'.pixels = canvas.pixels]_vars

\* A truecolor frame of several cells was shown in the fallback view after
\* a render of it that fitted: the terminal changed between two renders.
C18_Witness ==
  /\ last.op = "tc_show" /\ ~last.fit /\ last.ok
  /\ heap = "corrupt"
  /\ ProperFrame
  /\ canvas.mode = "RGB"
  /\ Len(canvas.pixels) > 1
  /\ canvas.pixels = last.pre

\* C19: every tc_create of a process yields the colour mode of the tc_create
\* before it, and so of the first, whatever COLORTERM and TERM are by then.
C19_ModeCachedForProcess ==
  [][(screen = "freed" /\ screen' = "live") =>
       canvas'.mode = canvas.mode]_vars

\* The static cached_colors holds a probe result or the failure mark.
Resolved == cached_colors # -2

\* C20: tput is spawned at most once in a process; once a tc_create has
\* resolved the mode, with tput answering, failing or missing, the cached
\* value stays and no later tc_create spawns tput; a failure is cached as
\* -1, not as the -2 of 'uninitialized'.
C20_ProbeAtMostOnce ==
  /\ [](probes <= 1)
  /\ [](last.op = "tc_create" => Resolved)
  /\ []((last.op = "tc_create" /\ last.cached = -2 /\ ~last.probed)
          => cached_colors = -1)
  /\ [][Resolved => (cached_colors' = cached_colors /\ probes' = probes)]_vars

\* A second tc_create found the failure of the first one's probe cached and
\* did not spawn tput.
C20_Witness ==
  /\ last.op = "tc_create"
  /\ last.cached = -1
  /\ ~last.probed
  /\ probes = 1
  /\ cached_colors = -1
  /\ screen = "live"

\* An environment variable is set and holds the text somewhere in its value.
Holds(var, text) == var.set /\ strstr(var.val, text)

TermIndicatesTruecolor(term) ==
  Holds(term, S_truecolor) \/ Holds(term, S_direct)

TermOfFamily256(term) == \E f \in Families256 : Holds(term, f)

\* C21 as claimed: truecolor by COLORTERM; else truecolor by TERM; else by
\* the colour count of the probe, TrueColor from 2^24 and Palette256 from
\* 256; else Palette256 for a TERM of the family list; else Base.
C21_ModePrecedence ==
  ret.op = "get_terminal_mode" =>
    LET tput_colors == ret.args[1]
        colorterm == ret.args[2]
        term == ret.args[3]
    IN ret.val =
         (IF Holds(colorterm, S_truecolor) THEN "RGB"
          ELSE IF TermIndicatesTruecolor(term) THEN "RGB"
          ELSE IF tput_colors > 0 /\ tput_colors >= 16777216 THEN "RGB"
          ELSE IF tput_colors > 0 /\ tput_colors >= 256 THEN "256"
          ELSE IF TermOfFamily256(term) THEN "256"
          ELSE "Base")

\* C21, amended: truecolor by COLORTERM; else truecolor by TERM; else
\* TrueColor for a colour count of 2^24 or more; else Palette256 for a TERM
\* that holds "256color", whatever the probe said; else, for a TERM of the
\* family list, Palette256 when the probe gave no count or one of 256 or
\* more and Base when it gave a smaller one; else Palette256 for a count of
\* 256 or more; else Base.
C21_ModePrecedence256ColorFirst ==
  ret.op = "get_terminal_mode" =>
    LET tput_colors == ret.args[1]
        colorterm == ret.args[2]
        term == ret.args[3]
        counted == tput_colors > 0
    IN ret.val =
         (IF Holds(colorterm, S_truecolor) THEN "RGB"
          ELSE IF TermIndicatesTruecolor(term) THEN "RGB"
          ELSE IF counted /\ tput_colors >= 16777216 THEN "RGB"
          ELSE IF Holds(term, S_256color) THEN "256"
          ELSE IF TermOfFamily256(term)
            THEN (IF ~counted \/ tput_colors >= 256 THEN "256" ELSE "Base")
          ELSE IF counted /\ tput_colors >= 256 THEN "256"
          ELSE "Base")

\* The mode was resolved as Palette256 for a TERM that holds "256color" and
\* is of no family of the list, the probe having counted 8 colours.
C21_Witness ==
  /\ ret.op = "get_terminal_mode"
  /\ ret.args = <<8, Unset, EnvStr(S_screen_256color)>>
  /\ ~TermOfFamily256(ret.args[3])
  /\ ret.val = "256"

\* The longest a row of the frame can be encoded: every cell with a style
\* sequence of its own (reset, an effect, the longest colour codes of the
\* frame's mode) and its glyph, then the row terminator.
WorstRowLength ==
  canvas.width
    * (Len(StyleText(COLOR_WHITE, COLOR_WHITE, Effect_Bold, canvas.mode)) + 1)
  + Len(EolText)

\* C22: a frame created with positive dimensions has a staging buffer of
\* at least the worst-case length of one row plus MAX_ANSI_LENGTH.
C22_BufferHoldsWorstRow ==
  (last.op = "tc_create" /\ screen = "live" /\ ProperFrame) =>
    canvas.buffer_size >= WorstRowLength + MAX_ANSI_LENGTH

\* The tokens that change the style in force on the terminal: the style
\* sequences, and the sequences that reset it (a row end, the final reset,
\* a sequence cut short).
SetsStyle(tk) == IsStyle(tk) \/ tk.k \in {"eol", "reset", "truncated"}

\* The token of st that decided the style in force at position i: the last
\* one before i that sets or resets the style (0: none).
InForceAt(st, i) ==
  LET ks == {k \in 1..(i - 1) : SetsStyle(st[k])}
  IN IF ks = {} THEN 0 ELSE CHOOSE k \in ks : \A j \in ks : j <= k

\* C23: in a normal render the style in force when a cell's glyph is
\* emitted is the style sequence of that cell's foreground, background and
\* effect, at the start of a row and after a mid-frame flush as elsewhere.
C23_StyleInForceIsTheCells ==
  NormalRender =>
    LET st == Stream
        gp == GlyphPos(st)
    IN \A n \in 1..Len(gp) :
         LET k == InForceAt(st, gp[n])
             px == canvas.pixels[n]
         IN /\ k > 0
            /\ IsStyle(st[k])
            /\ st[k].t = StyleText(px.foreground, px.background, px.effect,
                                   canvas.mode)

\* A render in several physical writes, of a frame of several rows, where the
\* first cell of a later row has the style of the cell before it and so
\* relies on the style sequence at the start of its row, and where a write
\* starts with a glyph that relies on the style set in the write before.
C23_Witness ==
  /\ NormalRender /\ InBuffer
  /\ canvas.height > 1
  /\ Len(out) > 1
  /\ \E w \in 2..Len(out) : out[w] # <<>> /\ IsGlyph(out[w][1])
  /\ LET st == Stream
         gp == GlyphPos(st)
     IN /\ Len(gp) = canvas.width * canvas.height
        /\ \E n \in 1..(Len(gp) - 1) :
             /\ ~SameRow(n)
             /\ SameStyle(canvas.pixels[n], canvas.pixels[n + 1])
             /\ st[gp[n + 1] - 1].k = "rowstyle"

\* The last call was a tc_put_pixel, tc_fill_area or tc_draw_borders whose
\* target lies inside the grid.
EffectCallInside ==
  \/ last.op = "tc_put_pixel" /\ CellInside(last.args[1], last.args[2])
  \/ /\ last.op \in {"tc_fill_area", "tc_draw_borders"}
     /\ AreaInside(last.args[1], last.args[2], last.args[3], last.args[4])

\* The cells (1-based, row-major) that call targets: the cell, the cells of
\* the area, the cells of the area's outline.
EffectTarget ==
  IF last.op = "tc_put_pixel"
    THEN {last.args[2] * canvas.width + last.args[1] + 1}
    ELSE {n \in 1..Len(canvas.pixels) :
            /\ last.args[1] <= ColOf(n)
            /\ ColOf(n) < last.args[1] + last.args[3]
            /\ last.args[2] <= RowOf(n)
            /\ RowOf(n) < last.args[2] + last.args[4]
            /\ last.op = "tc_draw_borders" =>
                 \/ ColOf(n) \in {last.args[1], last.args[1] + last.args[3] - 1}
                 \/ RowOf(n) \in {last.args[2], last.args[2] + last.args[4] - 1}}

\* C24: after an in-bounds tc_put_pixel, tc_fill_area or tc_draw_borders
\* every target cell has the effect the call was given (Effect_Bold in
\* every such call here), as every cell written by tc_draw_text and
\* tc_draw_wtext has the effect given to that call.
C24_EffectReachesTargetCells ==
  /\ EffectCallInside =>
       \A n \in EffectTarget : canvas.pixels[n].effect = Effect_Bold
  /\ TextInside =>
       \A n \in TextTarget : canvas.pixels[n].effect = last.args[6]

\* C25: the fallback view never stores at or past the end of its local
\* buffer of 1024 characters, whatever terminal size the query reports and
\* whatever frame does not fit in it.
C25_FallbackStaysInLocalBuffer ==
  (last.op = "tc_show" /\ ~last.fit /\ ProperFrame) => last.hi < TOO_SMALL_BUF

\* The render of the frame the last tc_show rendered, staged in a buffer
\* that no render fills: tc_show with no flush before the final write.
Unchunked ==
  ShowNormal([canvas EXCEPT
                !.enough_space = ~last.cleared,
                !.buffer_size = MAX_ANSI_LENGTH * (canvas.width + 2)
                                  * (canvas.height + canvas.terminal_h + 2)])

\* C26: the physical writes of a fitting tc_show hold only complete escape
\* sequences, and put end to end they are the character stream of the
\* unchunked render of the same frame.
C26_ChunkedEqualsUnchunked ==
  (last.op = "tc_show" /\ last.fit /\ ProperFrame) =>
    /\ \A i \in 1..Len(Stream) : Stream[i].k # "truncated"
    /\ Len(Unchunked.writes) = 1
    /\ Stream = Concat(Unchunked.writes)

====
